---- MODULE Spec2Model ----
(***************************************************************************)
(* A model of the row-matching and difference-classification code of       *)
(* ExcelDiffVisualizer (src/comparison.py, compare_dataframes), of its     *)
(* shape extraction (extract_shape_info) and of the way main.py loads two  *)
(* sheets and calls them.                                                  *)
(*                                                                         *)
(* Text is a sequence of one-character strings, so that str(), strip(),    *)
(* lower(), startswith() and the positional character comparison are       *)
(* computed as the code computes them.  A cell value is a tagged record    *)
(* (int | float | text | nan | none).  A float holds its value in tenths.  *)
(* The similarity scores, floats in the code, are exact fractions          *)
(* <<numerator, denominator>> in lowest terms.                             *)
(*                                                                         *)
(* list(set(...)) gives the common columns in the iteration order of a     *)
(* Python set of strings, which differs from process to process; the       *)
(* variable set_order is the order of the process at hand.                 *)
(***************************************************************************)
EXTENDS Integers, Sequences, FiniteSets, TLC

VARIABLES file1, file2, set_order, df1, df2, results, swapped,
          fallback, shapes_calls, main_run, shape_run, summary_run

vars == <<file1, file2, set_order, df1, df2, results, swapped,
          fallback, shapes_calls, main_run, shape_run, summary_run>>

-----------------------------------------------------------------------------
(* Bounds of the explored inputs.                                          *)

MaxRowsA == 2
MaxRowsB == 2
MaxCalls == 2
MaxShapes == 2

-----------------------------------------------------------------------------
(* Cell values.                                                            *)

IntV(n) == [k |-> "int", i |-> n, s |-> <<>>]
FloatV(t) == [k |-> "float", i |-> t, s |-> <<>>]
TextV(str) == [k |-> "text", i |-> 0, s |-> str]
NaN == [k |-> "nan", i |-> 0, s |-> <<>>]
NoneVal == [k |-> "none", i |-> 0, s |-> <<>>]

\* pd.isna(val) / pd.notna(val): NaN and None are missing
isna(val) == val.k \in {"nan", "none"}
notna(val) == ~isna(val)

\* pd.api.types.is_numeric_dtype(type(val)): NaN is a float
is_numeric_dtype(val) == val.k \in {"int", "float", "nan"}

-----------------------------------------------------------------------------
(* Python string operations on character sequences.                        *)

Digit(d) == <<"0", "1", "2", "3", "4", "5", "6", "7", "8", "9">>[d + 1]

RECURSIVE NatStr(_)
NatStr(n) == IF n < 10 THEN <<Digit(n)>> ELSE NatStr(n \div 10) \o <<Digit(n % 10)>>

\* str(n) of a Python int
IntStr(n) == IF n < 0 THEN <<"-">> \o NatStr(-n) ELSE NatStr(n)

\* str(x) of a Python float holding t tenths: repr keeps the ".0"
FloatStr(t) ==
  LET a == IF t < 0 THEN -t ELSE t
  IN  (IF t < 0 THEN <<"-">> ELSE <<>>) \o NatStr(a \div 10) \o <<".">> \o <<Digit(a % 10)>>

\* str(val)
Str(val) ==
  CASE val.k = "int" -> IntStr(val.i)
    [] val.k = "float" -> FloatStr(val.i)
    [] val.k = "text" -> val.s
    [] val.k = "none" -> <<"N", "o", "n", "e">>
    [] OTHER -> <<"n", "a", "n">>

UpperCase == <<"A", "B", "C", "D", "E", "F", "G", "H", "I", "J", "K", "L", "M",
               "N", "O", "P", "Q", "R", "S", "T", "U", "V", "W", "X", "Y", "Z">>
LowerCase == <<"a", "b", "c", "d", "e", "f", "g", "h", "i", "j", "k", "l", "m",
               "n", "o", "p", "q", "r", "s", "t", "u", "v", "w", "x", "y", "z">>

LowerChar(ch) ==
  IF \E n \in 1..26 : UpperCase[n] = ch
  THEN LowerCase[CHOOSE n \in 1..26 : UpperCase[n] = ch]
  ELSE ch

\* s.lower()
Lower(str) == [n \in 1..Len(str) |-> LowerChar(str[n])]

IsSpace(ch) == ch = " "

RECURSIVE LStrip(_)
LStrip(str) == IF str # <<>> /\ IsSpace(Head(str)) THEN LStrip(Tail(str)) ELSE str

RECURSIVE RStrip(_)
RStrip(str) ==
  IF str # <<>> /\ IsSpace(str[Len(str)]) THEN RStrip(SubSeq(str, 1, Len(str) - 1)) ELSE str

\* s.strip()
Strip(str) == RStrip(LStrip(str))

\* s.startswith(prefix)
StartsWith(str, prefix) ==
  Len(str) >= Len(prefix) /\ SubSeq(str, 1, Len(prefix)) = prefix

\* key in s
Contains(str, key) ==
  \E n \in 1..(Len(str) - Len(key) + 1) : SubSeq(str, n, n + Len(key) - 1) = key

\* sep.join(parts)
RECURSIVE Join(_, _)
Join(sep, parts) ==
  IF parts = <<>> THEN <<>>
  ELSE IF Len(parts) = 1 THEN parts[1]
  ELSE parts[1] \o sep \o Join(sep, Tail(parts))

-----------------------------------------------------------------------------
(* Column names.  A column name is a string; ColChars gives its characters *)
(* for the name tests of the code.                                         *)

ROW_HASH == "_row_hash"

ColChars(col) ==
  CASE col = "id" -> <<"i", "d">>
    [] col = "name" -> <<"n", "a", "m", "e">>
    [] col = "v" -> <<"v">>
    [] col = "w" -> <<"w">>
    [] col = "a" -> <<"a">>
    [] col = "b" -> <<"b">>
    [] col = "c" -> <<"c">>
    [] col = "x" -> <<"x">>
    [] col = "y" -> <<"y">>
    [] col = "No." -> <<"N", "o", ".">>
    [] col = "code" -> <<"c", "o", "d", "e">>
    [] col = ROW_HASH -> <<"_", "r", "o", "w", "_", "h", "a", "s", "h">>

\* the two characters U+756A U+53F7 of the Japanese word for "number", each
\* written by the name of its code point
BangoChars == <<"U+756A", "U+53F7">>

\* the identifier-like patterns of the key-column heuristic
KeyPatterns ==
  { <<"i", "d">>, <<"c", "o", "d", "e">>, <<"k", "e", "y">>, <<"n", "a", "m", "e">>,
    <<"n", "o">>, BangoChars }

\* any(key in col.lower() for key in [...])
is_key_like(col) == \E key \in KeyPatterns : Contains(Lower(ColChars(col)), key)

\* col.lower().strip() in ['no', 'no.', <the two-character word for number>]
is_no_column(col) ==
  Strip(Lower(ColChars(col))) \in { <<"n", "o">>, <<"n", "o", ".">>, BangoChars }

Range(seq) == { seq[n] : n \in 1..Len(seq) }

\* the one member of a one-member set; The({ F(v) : v \in {e} }) is F(e), with
\* e evaluated once
The(S) == CHOOSE v \in S : TRUE

\* list(set(df1.columns) & set(df2.columns)): the members in the iteration
\* order of the set, which is the order the string hashing of the process gives
common_cols_of(d1, d2, order) ==
  SelectSeq(order, LAMBDA col : col \in Range(d1.columns) /\ col \in Range(d2.columns))

Min(a, b) == IF a < b THEN a ELSE b

\* the key columns: the key-like common columns, else the first three
key_columns_of(common_cols) ==
  LET named == SelectSeq(common_cols, is_key_like)
  IN  IF named # <<>> THEN named
      ELSE SubSeq(common_cols, 1, Min(3, Len(common_cols)))

-----------------------------------------------------------------------------
(* create_row_hash                                                         *)

\* f"{val:.6f}".rstrip('0').rstrip('.') of a float holding t tenths
RECURSIVE RStripChar(_, _)
RStripChar(str, ch) ==
  IF str # <<>> /\ str[Len(str)] = ch THEN RStripChar(SubSeq(str, 1, Len(str) - 1), ch) ELSE str

Fixed6(t) == FloatStr(t) \o <<"0", "0", "0", "0", "0">>

\* normalize_numeric without the is_integer() branch: a float keeps its ".0"
normalize_numeric_repr(val) ==
  IF isna(val) THEN <<>> ELSE Str(val)

normalize_numeric(val) ==
  IF isna(val) THEN <<>>
  ELSE CASE val.k = "int" -> IntStr(val.i)
         [] val.k = "float" ->
              IF val.i % 10 = 0 THEN IntStr(val.i \div 10)
              ELSE RStripChar(RStripChar(Fixed6(val.i), "0"), ".")
         [] OTHER -> Str(val)

normalize_string(val) ==
  IF isna(val) THEN <<>> ELSE Lower(Strip(Str(val)))

\* the Value Normalizer: the numeric rule for a number, the string rule
\* otherwise
normalized_value(val) ==
  IF is_numeric_dtype(val) THEN normalize_numeric(val) ELSE normalize_string(val)

NoRef == <<"n", "o", "_", "r", "e", "f", ":">>

\* the values list: the other key columns first, then the No. columns
hash_values(row, key_columns) ==
  LET no_columns == SelectSeq(key_columns, is_no_column)
      other_key_columns == SelectSeq(key_columns, LAMBDA col : ~is_no_column(col))
      other == [n \in 1..Len(other_key_columns) |->
                  IF is_numeric_dtype(row[other_key_columns[n]])
                  THEN normalize_numeric(row[other_key_columns[n]])
                  ELSE normalize_string(row[other_key_columns[n]])]
      nos == [n \in 1..Len(no_columns) |-> NoRef \o normalize_numeric(row[no_columns[n]])]
  IN  other \o nos

\* f"{weight}" of the weight given to the i-th value (i counted from 0)
hash_weight(val, i, n_other) ==
  IF StartsWith(val, NoRef) THEN <<"0", ".", "1">>
  ELSE IF i < n_other THEN IntStr(n_other - i)
  ELSE <<"0", ".", "5">>

create_row_hash(row, key_columns) ==
  LET values == hash_values(row, key_columns)
      n_other == Len(SelectSeq(key_columns, LAMBDA col : ~is_no_column(col)))
      weighted_values == [n \in 1..Len(values) |->
                            hash_weight(values[n], n - 1, n_other) \o <<":">> \o values[n]]
  IN  Join(<<"|", "|">>, weighted_values)

\* df['_row_hash'] = df.apply(create_row_hash, axis=1): the column is added to
\* (or overwritten in) the table object itself.  create_row_hash catches what
\* its value accesses raise; the except branch with the index fingerprints
\* (hashed_tables) is taken when apply or the assignment raises.
with_row_hash(df, key_columns) ==
  [columns |-> IF ROW_HASH \in Range(df.columns) THEN df.columns
               ELSE Append(df.columns, ROW_HASH),
   rows |-> [n \in 1..Len(df.rows) |->
               [col \in DOMAIN df.rows[n] \cup {ROW_HASH} |->
                  IF col = ROW_HASH THEN TextV(create_row_hash(df.rows[n], key_columns))
                  ELSE df.rows[n][col]]]]

\* df['_row_hash'] = df.index.astype(str): the fingerprint of a row is its
\* position, "0", "1", ...
with_index_hash(df) ==
  [columns |-> IF ROW_HASH \in Range(df.columns) THEN df.columns
               ELSE Append(df.columns, ROW_HASH),
   rows |-> [n \in 1..Len(df.rows) |->
               [col \in DOMAIN df.rows[n] \cup {ROW_HASH} |->
                  IF col = ROW_HASH THEN TextV(IntStr(n - 1)) ELSE df.rows[n][col]]]]

\* the try/except around the two assignments of '_row_hash': when an
\* assignment raises, the except branch gives both tables index fingerprints
hashed_tables(d1, d2, key_columns, apply_raises) ==
  IF apply_raises
  THEN <<with_index_hash(d1), with_index_hash(d2)>>
  ELSE <<with_row_hash(d1, key_columns), with_row_hash(d2, key_columns)>>

\* the fingerprints, df['_row_hash'], in row order
row_hashes(df) == [n \in 1..Len(df.rows) |-> df.rows[n][ROW_HASH].s]


-----------------------------------------------------------------------------
(* calculate_row_similarity.  A score is an exact fraction <<n, d>>, d > 0. *)

One == <<1, 1>>
Zero == <<0, 1>>

RECURSIVE GCD(_, _)
GCD(a, b) == IF b = 0 THEN a ELSE GCD(b, a % b)

\* the fraction n/d in lowest terms (n >= 0, d > 0)
Frac(n, d) == The({ <<n \div g, d \div g>> : g \in {GCD(n, d)} })

\* a > b for two fractions
FracGT(a, b) == a[1] * b[2] > b[1] * a[2]

Max(a, b) == IF a > b THEN a ELSE b
Abs(a) == IF a < 0 THEN -a ELSE a

calculate_string_similarity(v1, v2) ==
  IF v1.s = <<>> /\ v2.s = <<>> THEN One
  ELSE IF v1.s = <<>> \/ v2.s = <<>> THEN Zero
  ELSE LET s1 == Lower(Strip(Str(v1)))
           s2 == Lower(Strip(Str(v2)))
           matches == Cardinality({ n \in 1..Min(Len(s1), Len(s2)) : s1[n] = s2[n] })
       IN  IF s1 = s2 THEN One ELSE Frac(matches, Max(Len(s1), Len(s2)))

IsDigitChar(ch) == \E d \in 0..9 : Digit(d) = ch

RECURSIVE DigitsValue(_)
DigitsValue(str) ==
  IF str = <<>> THEN 0
  ELSE 10 * DigitsValue(SubSeq(str, 1, Len(str) - 1))
       + (CHOOSE d \in 0..9 : Digit(d) = str[Len(str)])

\* float(v) succeeds: a number, or text that is a run of digits once stripped
can_float(val) ==
  \/ val.k \in {"int", "float"}
  \/ /\ val.k = "text"
     /\ Strip(val.s) # <<>>
     /\ \A n \in 1..Len(Strip(val.s)) : IsDigitChar(Strip(val.s)[n])

\* float(v), in tenths
float_tenths(val) ==
  CASE val.k = "int" -> 10 * val.i
    [] val.k = "float" -> val.i
    [] OTHER -> 10 * DigitsValue(Strip(val.s))

\* calculate_numeric_similarity returning 1 - diff_ratio without max(0, ...)
calculate_numeric_similarity_unclamped(v1, v2) ==
  IF isna(v1) /\ isna(v2) THEN One
  ELSE IF isna(v1) \/ isna(v2) THEN Zero
  ELSE IF ~can_float(v1) \/ ~can_float(v2) THEN Zero
  ELSE LET n1 == float_tenths(v1)
           n2 == float_tenths(v2)
           max_val == Max(Abs(n1), Abs(n2))
       IN  IF n1 = n2 THEN One
           ELSE IF max_val = 0 THEN One
           ELSE <<max_val - Abs(n1 - n2), max_val>>

calculate_numeric_similarity(v1, v2) ==
  IF isna(v1) /\ isna(v2) THEN One
  ELSE IF isna(v1) \/ isna(v2) THEN Zero
  ELSE IF ~can_float(v1) \/ ~can_float(v2) THEN Zero
  ELSE LET n1 == float_tenths(v1)
           n2 == float_tenths(v2)
           max_val == Max(Abs(n1), Abs(n2))
       IN  IF n1 = n2 THEN One
           ELSE IF max_val = 0 THEN One
           ELSE IF Abs(n1 - n2) >= max_val THEN Zero
           ELSE Frac(max_val - Abs(n1 - n2), max_val)

column_similarity(val1, val2) ==
  IF is_numeric_dtype(val1) \/ is_numeric_dtype(val2)
  THEN calculate_numeric_similarity(val1, val2)
  ELSE calculate_string_similarity(val1, val2)

\* column_weight testing the key columns before the ordinal column
column_weight_key_first(col, key_columns) ==
  IF col \in Range(SubSeq(key_columns, 1, Min(2, Len(key_columns)))) THEN 30
  ELSE IF col \in Range(key_columns) THEN 20
  ELSE IF is_no_column(col) THEN 1
  ELSE 10

\* the weight of a column, in tenths
column_weight(col, key_columns) ==
  IF is_no_column(col) THEN 1
  ELSE IF col \in Range(SubSeq(key_columns, 1, Min(2, Len(key_columns)))) THEN 30
  ELSE IF col \in Range(key_columns) THEN 20
  ELSE 10

\* matches + weight * similarity, for a weight in tenths
add_match(matches, weight, similarity) ==
  Frac(matches[1] * similarity[2] + weight * similarity[1] * matches[2],
       matches[2] * similarity[2])

\* matches, the weighted sum of the column similarities, as a fraction
RECURSIVE weighted_matches(_, _, _, _)
weighted_matches(row1, row2, cols, key_columns) ==
  IF cols = <<>> THEN Zero
  ELSE The({ add_match(matches, column_weight(cols[Len(cols)], key_columns), similarity) :
               matches \in {weighted_matches(row1, row2, SubSeq(cols, 1, Len(cols) - 1),
                                             key_columns)},
               similarity \in {column_similarity(row1[cols[Len(cols)]],
                                                 row2[cols[Len(cols)]])} })

RECURSIVE total_weight_of(_, _)
total_weight_of(cols, key_columns) ==
  IF cols = <<>> THEN 0
  ELSE column_weight(Head(cols), key_columns) + total_weight_of(Tail(cols), key_columns)

calculate_row_similarity(row1, row2, common_cols, key_columns) ==
  LET matches == weighted_matches(row1, row2, common_cols, key_columns)
      total_weight == total_weight_of(common_cols, key_columns)
  IN  IF total_weight > 0
      THEN The({ Frac(m[1], m[2] * total_weight) : m \in {matches} })
      ELSE Zero

similarity_threshold == <<4, 5>>


-----------------------------------------------------------------------------
(* compare_dataframes.  Row indices are 0-based as in the code; row idx of *)
(* a table is df.rows[idx + 1].  The state of the two passes is a record   *)
(* of the local variables; pairs and scores are a log of the accepted      *)
(* pairs and of the calls of calculate_row_similarity.                     *)

\* str(row[col]).strip() if pd.notna(row[col]) else ''
cell_str(val) == IF notna(val) THEN Strip(Str(val)) ELSE <<>>

style(col, idx, class) == [field |-> col, rowIndex |-> idx, cellClass |-> class]

modified_record(col, idx1, idx2, row1, row2) ==
  [type |-> "modified", column |-> col, row_index_old |-> idx1, row_index_new |-> idx2,
   value_old |-> cell_str(row1[col]), value_new |-> cell_str(row2[col])]

\* row[common_cols].to_dict()
row_values(row, common_cols) == [col \in Range(common_cols) |-> row[col]]

\* the columns of a pair that the exact pass reports: the No. columns are skipped
exact_modified_cols(row1, row2, common_cols) ==
  SelectSeq(common_cols, LAMBDA col :
    ~is_no_column(col) /\ cell_str(row1[col]) # cell_str(row2[col]))

\* the columns of a pair that the similarity pass reports
similar_modified_cols(row1, row2, common_cols) ==
  SelectSeq(common_cols, LAMBDA col : cell_str(row1[col]) # cell_str(row2[col]))

\* the entries a pair adds to the two style lists and to differences
with_pair(st, idx1, idx2, row1, row2, cols, pass) ==
  [st EXCEPT
     !.matched_df1_indices = @ \cup {idx1},
     !.matched_df2_indices = @ \cup {idx2},
     !.df1_styles = @ \o [n \in 1..Len(cols) |-> style(cols[n], idx1, "ag-cell-modified")],
     !.df2_styles = @ \o [n \in 1..Len(cols) |-> style(cols[n], idx2, "ag-cell-modified")],
     !.differences = @ \o [n \in 1..Len(cols) |->
                             modified_record(cols[n], idx1, idx2, row1, row2)],
     !.pairs = Append(@, [old |-> idx1, new |-> idx2, pass |-> pass])]

\* hash_map_df2 = {hash_val: idx for idx, hash_val in enumerate(...)}: a later
\* row with the same hash overwrites the entry of an earlier one
hash_map_df2(d2) ==
  [hash_val \in Range(row_hashes(d2)) |->
     CHOOSE idx \in 0..(Len(d2.rows) - 1) :
       /\ row_hashes(d2)[idx + 1] = hash_val
       /\ \A later \in (idx + 1)..(Len(d2.rows) - 1) : row_hashes(d2)[later + 1] # hash_val]

\* first pass: the body of the loop over df1, for row idx1
exact_step(d1, d2, common_cols, idx1, st) ==
  LET hash_val == row_hashes(d1)[idx1 + 1]
      map == hash_map_df2(d2)
      idx2 == map[hash_val]
      row1 == d1.rows[idx1 + 1]
      row2 == d2.rows[idx2 + 1]
  IN  IF hash_val \in DOMAIN map /\ idx2 \notin st.matched_df2_indices
      THEN with_pair(st, idx1, idx2, row1, row2,
                     exact_modified_cols(row1, row2, common_cols), "exact")
      ELSE st

\* first pass: the loop over df1 from row idx1 on
RECURSIVE exact_pass(_, _, _, _, _)
exact_pass(d1, d2, common_cols, idx1, st) ==
  IF idx1 >= Len(d1.rows) THEN st
  ELSE The({ exact_pass(d1, d2, common_cols, idx1 + 1, next) :
               next \in {exact_step(d1, d2, common_cols, idx1, st)} })

None == -1

\* best_of with "similarity >= best_similarity" for "similarity > best_similarity"
RECURSIVE best_of_or_equal(_, _, _, _, _, _, _)
best_of_or_equal(row1, d2, unmatched_df2, n, common_cols, key_columns, best) ==
  IF n > Len(unmatched_df2) THEN best
  ELSE LET idx2 == unmatched_df2[n]
           similarity == calculate_row_similarity(row1, d2.rows[idx2 + 1],
                                                  common_cols, key_columns)
       IN  best_of_or_equal(row1, d2, unmatched_df2, n + 1, common_cols, key_columns,
                            IF ~FracGT(best.best_similarity, similarity)
                            THEN [best_match |-> idx2, best_similarity |-> similarity]
                            ELSE best)

\* the inner loop over unmatched_df2 from position n on
RECURSIVE best_of(_, _, _, _, _, _, _)
best_of(row1, d2, unmatched_df2, n, common_cols, key_columns, best) ==
  IF n > Len(unmatched_df2) THEN best
  ELSE LET idx2 == unmatched_df2[n]
           similarity == calculate_row_similarity(row1, d2.rows[idx2 + 1],
                                                  common_cols, key_columns)
       IN  best_of(row1, d2, unmatched_df2, n + 1, common_cols, key_columns,
                   IF FracGT(similarity, best.best_similarity)
                   THEN [best_match |-> idx2, best_similarity |-> similarity]
                   ELSE best)

\* the calls of calculate_row_similarity made for row idx1: the two row
\* indices, the two rows passed and the score returned
scores_of(idx1, row1, d2, unmatched_df2, common_cols, key_columns) ==
  [n \in 1..Len(unmatched_df2) |->
     [old |-> idx1, new |-> unmatched_df2[n],
      row1 |-> row1, row2 |-> d2.rows[unmatched_df2[n] + 1],
      similarity |-> calculate_row_similarity(row1, d2.rows[unmatched_df2[n] + 1],
                                              common_cols, key_columns)]]

\* a row of df1 without a similar row: the deleted styles and record
with_deleted(st, idx1, row, common_cols) ==
  LET cols == SelectSeq(common_cols, LAMBDA col : notna(row[col]))
  IN  [st EXCEPT
         !.df1_styles = @ \o [n \in 1..Len(cols) |-> style(cols[n], idx1, "ag-cell-deleted")],
         !.differences = Append(@, [type |-> "deleted", row_index |-> idx1,
                                    values |-> row_values(row, common_cols)])]

\* second pass: the body of the loop over unmatched_df1, for row idx1;
\* unmatched_df2 is the list built before the loop
similarity_step(d1, d2, common_cols, key_columns, unmatched_df2, idx1, st) ==
  LET row1 == d1.rows[idx1 + 1]
      best == best_of(row1, d2, unmatched_df2, 1, common_cols, key_columns,
                      [best_match |-> None, best_similarity |-> similarity_threshold])
      logged == [st EXCEPT !.scores = @ \o scores_of(idx1, row1, d2, unmatched_df2,
                                                    common_cols, key_columns)]
  IN  The({ IF found.best_match # None
            THEN with_pair(logged, idx1, found.best_match, row1,
                           d2.rows[found.best_match + 1],
                           similar_modified_cols(row1, d2.rows[found.best_match + 1],
                                                 common_cols),
                           "similar")
            ELSE with_deleted(logged, idx1, row1, common_cols) :
            found \in {best} })

\* second pass: the loop over unmatched_df1 from position n on
RECURSIVE similarity_pass(_, _, _, _, _, _, _, _)
similarity_pass(d1, d2, common_cols, key_columns, unmatched_df1, unmatched_df2, n, st) ==
  IF n > Len(unmatched_df1) THEN st
  ELSE The({ similarity_pass(d1, d2, common_cols, key_columns, unmatched_df1,
                             unmatched_df2, n + 1, next) :
               next \in {similarity_step(d1, d2, common_cols, key_columns, unmatched_df2,
                                         unmatched_df1[n], st)} })

\* added_step without the test "idx2 not in matched_df2_indices"
added_step_unguarded(d2, common_cols, idx2, st) ==
  LET row == d2.rows[idx2 + 1]
      cols == SelectSeq(common_cols, LAMBDA col : notna(row[col]))
  IN  [st EXCEPT
         !.df2_styles = @ \o [n \in 1..Len(cols) |-> style(cols[n], idx2, "ag-cell-added")],
         !.differences = Append(@, [type |-> "added", row_index |-> idx2,
                                    values |-> row_values(row, common_cols)])]

\* the body of the loop over df2 that reports the added rows, for row idx2
added_step(d2, common_cols, idx2, st) ==
  LET row == d2.rows[idx2 + 1]
      cols == SelectSeq(common_cols, LAMBDA col : notna(row[col]))
  IN  IF idx2 \notin st.matched_df2_indices
      THEN [st EXCEPT
              !.df2_styles = @ \o [n \in 1..Len(cols) |->
                                     style(cols[n], idx2, "ag-cell-added")],
              !.differences = Append(@, [type |-> "added", row_index |-> idx2,
                                         values |-> row_values(row, common_cols)])]
      ELSE st

\* the loop over df2 that reports the added rows, from row idx2 on
RECURSIVE added_pass(_, _, _, _)
added_pass(d2, common_cols, idx2, st) ==
  IF idx2 >= Len(d2.rows) THEN st
  ELSE The({ added_pass(d2, common_cols, idx2 + 1, next) :
               next \in {added_step(d2, common_cols, idx2, st)} })

\* [i for i in range(len(df)) if i not in matched]
unmatched(df, matched) ==
  SelectSeq([n \in 1..Len(df.rows) |-> n - 1], LAMBDA idx : idx \notin matched)

\* df_result.drop('_row_hash', axis=1, inplace=True) when the column is there
drop_row_hash(df) ==
  IF ROW_HASH \in Range(df.columns)
  THEN [columns |-> SelectSeq(df.columns, LAMBDA col : col # ROW_HASH),
        rows |-> [n \in 1..Len(df.rows) |->
                    [col \in DOMAIN df.rows[n] \ {ROW_HASH} |-> df.rows[n][col]]]]
  ELSE df

\* the three passes over the two tables that carry their fingerprints; the
\* value is the local variables after the last pass
run_passes(h1, h2, common_cols, key_columns) ==
  LET st0 == [matched_df1_indices |-> {}, matched_df2_indices |-> {},
              df1_styles |-> <<>>, df2_styles |-> <<>>, differences |-> <<>>,
              pairs |-> <<>>, scores |-> <<>>]
      second(st1) ==
        similarity_pass(h1, h2, common_cols, key_columns,
                        unmatched(h1, st1.matched_df1_indices),
                        unmatched(h2, st1.matched_df2_indices), 1, st1)
      third(st2) == added_pass(h2, common_cols, 0, st2)
  IN  The({ The({ third(st2) : st2 \in {second(st1)} }) :
            st1 \in {exact_pass(h1, h2, common_cols, 0, st0)} })

\* One call compare_dataframes(d1, d2), for which building the fingerprints
\* raises (apply_raises) or not.  out is the returned dict, df1 and df2 are
\* the two argument objects as the call leaves them, locals are the local
\* variables at the return.  df1_result and df2_result are the copies taken
\* on entry.
compare_dataframes_run(d1, d2, order, apply_raises) ==
  LET df1_result == d1
      df2_result == d2
      common_cols == common_cols_of(d1, d2, order)
      key_columns == key_columns_of(common_cols)
      returned(h1, h2, st) ==
        [out |-> [df1 |-> drop_row_hash(df1_result), df2 |-> drop_row_hash(df2_result),
                  df1_styles |-> st.df1_styles, df2_styles |-> st.df2_styles,
                  diff_summary |-> st.differences],
         df1 |-> h1, df2 |-> h2,
         locals |-> [common_cols |-> common_cols, key_columns |-> key_columns,
                     matched_df1_indices |-> st.matched_df1_indices,
                     matched_df2_indices |-> st.matched_df2_indices,
                     pairs |-> st.pairs, scores |-> st.scores]]
  IN  The({ The({ returned(h[1], h[2], st) :
                  st \in {run_passes(h[1], h[2], common_cols, key_columns)} }) :
            h \in {hashed_tables(d1, d2, key_columns, apply_raises)} })

\* a call in which building the fingerprints does not raise
compare_dataframes(d1, d2, order) == compare_dataframes_run(d1, d2, order, FALSE)

-----------------------------------------------------------------------------
(* extract_shape_info.  The object passed as wb is a path string or an     *)
(* openpyxl workbook; a worksheet holds its images, its shapes, and        *)
(* whether reading its shape containers raises.                            *)

\* what the call leaves: it raised, or it returned shapes_info
extract_shape_info(wb, sheet_name) ==
  IF wb.kind # "Workbook" \/ sheet_name \notin DOMAIN wb.sheets
  THEN [raised |-> TRUE, shapes_info |-> <<>>]
  ELSE LET ws == wb.sheets[sheet_name]
       IN  [raised |-> FALSE,
            shapes_info |-> IF ws.containers_raise THEN ws.images
                            ELSE ws.images \o ws.shapes]

-----------------------------------------------------------------------------
(* compare_shapes.  A shape is a record of its type, x, y, width, height   *)
(* and text; shape indices are 0-based as in the code.                     *)

\* the test of the two loops: same x, same y and same type
same_position(shape1, shape2) ==
  shape1.x = shape2.x /\ shape1.y = shape2.y /\ shape1.type = shape2.type

\* the inner loop over shapes1 from index idx1 on: the index of the first
\* shape at the position of shape2, the loop breaks there
RECURSIVE first_match(_, _, _)
first_match(shapes1, shape2, idx1) ==
  IF idx1 >= Len(shapes1) THEN None
  ELSE IF same_position(shapes1[idx1 + 1], shape2) THEN idx1
  ELSE first_match(shapes1, shape2, idx1 + 1)

\* shape_changed without the comparison of the texts
shape_changed_size_only(shape1, shape2) ==
  shape1.width # shape2.width \/ shape1.height # shape2.height

\* width, height or text differ
shape_changed(shape1, shape2) ==
  shape1.width # shape2.width \/ shape1.height # shape2.height \/ shape1.text # shape2.text

\* the first loop, over shapes2 from index idx2 on: modified and added
RECURSIVE new_and_modified(_, _, _, _)
new_and_modified(shapes1, shapes2, idx2, differences) ==
  IF idx2 >= Len(shapes2) THEN differences
  ELSE LET shape2 == shapes2[idx2 + 1]
           idx1 == first_match(shapes1, shape2, 0)
       IN  new_and_modified(shapes1, shapes2, idx2 + 1,
             IF idx1 = None
             THEN Append(differences,
                         [type |-> "added", shape_index |-> idx2, shape |-> shape2])
             ELSE IF shape_changed(shapes1[idx1 + 1], shape2)
             THEN Append(differences,
                         [type |-> "modified", shape_index |-> idx2,
                          old_shape |-> shapes1[idx1 + 1], new_shape |-> shape2])
             ELSE differences)

\* the second loop, over shapes1 from index idx1 on: deleted
RECURSIVE deleted_shapes(_, _, _, _)
deleted_shapes(shapes1, shapes2, idx1, differences) ==
  IF idx1 >= Len(shapes1) THEN differences
  ELSE deleted_shapes(shapes1, shapes2, idx1 + 1,
         IF \E n \in 1..Len(shapes2) : same_position(shapes1[idx1 + 1], shapes2[n])
         THEN differences
         ELSE Append(differences, [type |-> "deleted", shape_index |-> idx1,
                                   shape |-> shapes1[idx1 + 1]]))

compare_shapes(shapes1, shapes2) ==
  deleted_shapes(shapes1, shapes2, 0, new_and_modified(shapes1, shapes2, 0, <<>>))

-----------------------------------------------------------------------------
(* The explored inputs: pairs of sheets, given by the column lists of the  *)
(* two sheets and the values a cell of each column may hold.               *)

Alice == TextV(<<"A", "l", "i", "c", "e">>)
Alicia == TextV(<<"A", "l", "i", "c", "i", "a">>)
Abbot == TextV(<<"A", "b", "b", "o", "t">>)

CellValues ==
  { IntV(-1), IntV(0), IntV(1), IntV(2), IntV(3), IntV(5), IntV(30), FloatV(10),
    FloatV(25), FloatV(50), Alice, Alicia, Abbot, TextV(<<"x">>), TextV(<<"y">>),
    NaN, NoneVal }

Families ==
  { [cols1 |-> <<"id", "name">>, cols2 |-> <<"id", "name">>,
     dom |-> [id |-> {IntV(1)}, name |-> {Alice, Alicia}]],
    [cols1 |-> <<"id", "v">>, cols2 |-> <<"id", "v">>,
     dom |-> [id |-> {IntV(1), IntV(2)}, v |-> {TextV(<<"x">>), TextV(<<"y">>)}]],
    [cols1 |-> <<"id", "w">>, cols2 |-> <<"id", "v">>,
     dom |-> [id |-> {FloatV(10), NaN}, w |-> {IntV(1)}, v |-> {TextV(<<"x">>), NaN}]],
    [cols1 |-> <<"a", "b", "c">>, cols2 |-> <<"a", "b", "c">>,
     dom |-> [a |-> {IntV(1)}, b |-> {IntV(2)}, c |-> {IntV(3), IntV(30)}]],
    [cols1 |-> <<"x">>, cols2 |-> <<"y">>,
     dom |-> [x |-> {IntV(1), IntV(2)}, y |-> {TextV(<<"x">>)}]],
    [cols1 |-> <<"c">>, cols2 |-> <<"c">>,
     dom |-> [c |-> {IntV(-1), IntV(0), IntV(2), TextV(<<"x">>), NaN}]],
    [cols1 |-> <<"No.", "v">>, cols2 |-> <<"No.", "v">>,
     dom |-> ("No." :> {IntV(1), IntV(2)} @@ "v" :> {TextV(<<"x">>), TextV(<<"y">>)})],
    [cols1 |-> <<"code">>, cols2 |-> <<"code">>,
     dom |-> [code |-> {IntV(5), FloatV(50), FloatV(25), NoneVal, NaN}]],
    [cols1 |-> <<"id", "v">>, cols2 |-> <<"id", "v">>,
     dom |-> [id |-> {IntV(1)}, v |-> {Alice, Abbot}]] }

RowsOf(cols, dom) ==
  { row \in [Range(cols) -> CellValues] : \A col \in Range(cols) : row[col] \in dom[col] }

\* the sheets pd.read_excel can return: the columns and 1..max_rows rows (main
\* skips a pair with an empty sheet)
Tables(cols, dom, max_rows) ==
  { [columns |-> cols, rows |-> rows] :
      rows \in UNION { [1..n -> RowsOf(cols, dom)] : n \in 1..max_rows } }

Perms(S) ==
  { p \in [1..Cardinality(S) -> S] : \A m, n \in 1..Cardinality(S) : p[m] = p[n] => m = n }

\* file1_path, the string main passes to extract_shape_info as wb
file_path == [kind |-> "str", sheets |-> <<>>]

image == [type |-> "image", x |-> 0, y |-> 0, width |-> 1, height |-> 1, text |-> <<>>]
shape == [type |-> "shape", x |-> 1, y |-> 1, width |-> 1, height |-> 1, text |-> <<"t">>]

\* the shape lists given to compare_shapes: images and shapes at three
\* positions, of two widths, two heights and two texts
ShapeValues ==
  { image,
    [image EXCEPT !.width = 2],
    [image EXCEPT !.height = 2],
    [image EXCEPT !.x = 1],
    [image EXCEPT !.y = 1],
    shape,
    [shape EXCEPT !.text = <<"u">>] }

ShapeLists == UNION { [1..n -> ShapeValues] : n \in 0..MaxShapes }

Worksheets ==
  [images : {<<>>, <<image>>}, shapes : {<<>>, <<shape>>}, containers_raise : BOOLEAN]

\* the workbooks load_workbook can return: with the sheet asked for or not
Workbooks ==
  { [kind |-> "Workbook", sheets |-> [name \in {"Sheet1"} |-> ws]] : ws \in Worksheets }
  \cup { [kind |-> "Workbook", sheets |-> [name \in {"Other"} |-> ws]] :
            ws \in { w \in Worksheets : w.images = <<>> /\ w.shapes = <<>> } }

-----------------------------------------------------------------------------
(* The state machine: main loads the two sheets and calls                  *)
(* compare_dataframes on the loaded tables.                                *)

Init ==
  \E fam \in Families :
    /\ file1 \in Tables(fam.cols1, fam.dom, MaxRowsA)
    /\ file2 \in Tables(fam.cols2, fam.dom, MaxRowsB)
    /\ set_order \in Perms((Range(fam.cols1) \cap Range(fam.cols2)) \cup {ROW_HASH})
    /\ df1 = file1
    /\ df2 = file2
    /\ results = <<>>
    /\ swapped = <<>>
    /\ fallback = <<>>
    /\ shapes_calls = <<>>
    /\ main_run = <<>>
    /\ shape_run = [shapes1 |-> <<>>, shapes2 |-> <<>>, shape_differences |-> <<>>,
                    compared |-> FALSE]
    /\ summary_run = <<>>

\* what a call leaves for the caller: the returned dict and, for the
\* properties, the local variables
Outcome(r) == [out |-> r.out, locals |-> r.locals]

\* compare_dataframes(df1, df2) on the loaded tables
Compare ==
  /\ Len(results) < MaxCalls
  /\ \E r \in {compare_dataframes(df1, df2, set_order)} :
         /\ results' = Append(results, Outcome(r))
         /\ df1' = r.df1
         /\ df2' = r.df2
  /\ UNCHANGED <<file1, file2, set_order, swapped, fallback, shapes_calls, main_run,
                 shape_run, summary_run>>

\* compare_dataframes(df2, df1) on freshly loaded tables, the two sheets
\* exchanged
CompareSwapped ==
  /\ swapped = <<>>
  /\ swapped' = <<Outcome(compare_dataframes(file2, file1, set_order))>>
  /\ UNCHANGED <<file1, file2, set_order, df1, df2, results, fallback, shapes_calls,
                 main_run,
                 shape_run, summary_run>>

\* main runs again: the two sheets are read anew
Load ==
  /\ results # <<>>
  /\ df1' = file1
  /\ df2' = file2
  /\ results' = <<>>
  /\ UNCHANGED <<file1, file2, set_order, swapped, fallback, shapes_calls, main_run,
                 shape_run, summary_run>>

Next == Compare \/ CompareSwapped \/ Load

Spec == Init /\ [][Next]_vars

-----------------------------------------------------------------------------
(* The error paths.                                                        *)

\* compare_dataframes(df1, df2) on freshly loaded tables, when building the
\* fingerprints of one of the two tables raises
CompareFallback ==
  /\ fallback = <<>>
  /\ \E failing \in {"df1", "df2"} :
       \E r \in {compare_dataframes_run(file1, file2, set_order, TRUE)} :
         fallback' = <<[failing |-> failing, o |-> Outcome(r), df1 |-> r.df1, df2 |-> r.df2]>>
  /\ UNCHANGED <<file1, file2, set_order, df1, df2, results, swapped, shapes_calls,
                 main_run,
                 shape_run, summary_run>>

NextFallback == CompareFallback

SpecFallback == Init /\ [][NextFallback]_vars

\* extract_shape_info(wb, "Sheet1") called with a workbook or with a path
ExtractShapes ==
  /\ shapes_calls = <<>>
  /\ \E wb \in Workbooks \cup {file_path} :
       shapes_calls' = <<[wb |-> wb, sheet_name |-> "Sheet1",
                          r |-> extract_shape_info(wb, "Sheet1")]>>
  /\ UNCHANGED <<file1, file2, set_order, df1, df2, results, swapped, fallback, main_run,
                 shape_run, summary_run>>

\* the body of main's loop over the selected sheet pairs, for one pair: the
\* two sheets are read, the shapes are extracted from file1_path and
\* file2_path, the tables are compared and the result is appended to
\* all_comparison_results; an exception anywhere ends the pair with st.error
MainSheetPair ==
  /\ main_run = <<>>
  /\ LET shapes1 == extract_shape_info(file_path, "Sheet1")
         shapes2 == extract_shape_info(file_path, "Sheet1")
     IN  main_run' =
           IF shapes1.raised \/ shapes2.raised
           THEN <<[error |-> TRUE, all_comparison_results |-> <<>>]>>
           ELSE <<[error |-> FALSE,
                   all_comparison_results |->
                     <<compare_dataframes(file1, file2, set_order).out>>]>>
  /\ UNCHANGED <<file1, file2, set_order, df1, df2, results, swapped, fallback,
                 shapes_calls,
                 shape_run, summary_run>>

NextMain == ExtractShapes \/ MainSheetPair

SpecMain == Init /\ [][NextMain]_vars

\* the sheet pair of a run that compares the shapes of two sheets
ShapesSheet == [columns |-> <<"id">>, rows |-> <<[id |-> IntV(1)]>>]

\* two sheets whose shape lists have been extracted, ahead of compare_shapes
InitShapes ==
  /\ file1 = ShapesSheet
  /\ file2 = ShapesSheet
  /\ set_order = <<"id", ROW_HASH>>
  /\ df1 = file1
  /\ df2 = file2
  /\ results = <<>>
  /\ swapped = <<>>
  /\ fallback = <<>>
  /\ shapes_calls = <<>>
  /\ main_run = <<>>
  /\ \E shapes1 \in ShapeLists : \E shapes2 \in ShapeLists :
       shape_run = [shapes1 |-> shapes1, shapes2 |-> shapes2, shape_differences |-> <<>>,
                    compared |-> FALSE]
  /\ summary_run = <<>>

\* shape_differences = comparison.compare_shapes(shapes1, shapes2)
CompareShapes ==
  /\ ~shape_run.compared
  /\ shape_run' = [shape_run EXCEPT
                     !.shape_differences = compare_shapes(shape_run.shapes1,
                                                          shape_run.shapes2),
                     !.compared = TRUE]
  /\ UNCHANGED <<file1, file2, set_order, df1, df2, results, swapped, fallback,
                 shapes_calls, main_run, summary_run>>

NextShapes == CompareShapes

SpecShapes == InitShapes /\ [][NextShapes]_vars

\* The step of main after the loop over the sheet pairs, given the list
\* all_comparison_results: the summary rows are built for each result, the
\* two tables are written to writer, then export_comparison is called.  For
\* a deleted or added record the value text calls .items() on the items of
\* the values dict, which raises; writer is a name main never binds, so
\* writing the tables raises.  The except of main reports the error and
\* returns.
main_summary(all_comparison_results) ==
  IF all_comparison_results = <<>>
  THEN [all_comparison_results |-> all_comparison_results, raised |-> "",
        export_called |-> FALSE]
  ELSE [all_comparison_results |-> all_comparison_results,
        raised |-> IF \E d \in Range(all_comparison_results[1].diff_summary) :
                        d.type # "modified"
                   THEN "AttributeError"
                   ELSE "NameError",
        export_called |-> FALSE]

\* main goes on after the loop with the result of the sheet pair compared
MainSummary ==
  /\ summary_run = <<>>
  /\ summary_run' = <<main_summary([n \in 1..Min(1, Len(results)) |-> results[n].out])>>
  /\ UNCHANGED <<file1, file2, set_order, df1, df2, results, swapped, fallback,
                 shapes_calls, main_run, shape_run>>

NextSummary == Compare \/ MainSummary

SpecSummary == Init /\ [][NextSummary]_vars


-----------------------------------------------------------------------------
(* The properties.  A call is an outcome together with the two tables it   *)
(* was given: results[n] compares the sheets (file1, file2), swapped[n]    *)
(* compares (file2, file1).                                                *)

Calls ==
  { [o |-> results[n], A |-> file1, B |-> file2] : n \in 1..Len(results) }
  \cup { [o |-> swapped[n], A |-> file2, B |-> file1] : n \in 1..Len(swapped) }

\* the calls made on freshly loaded tables
FreshCalls ==
  { [o |-> results[n], A |-> file1, B |-> file2] : n \in 1..Min(1, Len(results)) }
  \cup { [o |-> swapped[n], A |-> file2, B |-> file1] : n \in 1..Len(swapped) }

RecordsOf(o, type) == { d \in Range(o.out.diff_summary) : d.type = type }

Pairs(o) == Range(o.locals.pairs)
PairedOld(o) == { p.old : p \in Pairs(o) }
PairedNew(o) == { p.new : p \in Pairs(o) }
DeletedRows(o) == { d.row_index : d \in RecordsOf(o, "deleted") }
AddedRows(o) == { d.row_index : d \in RecordsOf(o, "added") }

RowIndices(df) == 0..(Len(df.rows) - 1)

CommonOf(A, B) == Range(A.columns) \cap Range(B.columns)

\* a score in [0.0, 1.0]
InUnit(f) == f[2] > 0 /\ 0 <= f[1] /\ f[1] <= f[2]

\* two cell values are equal: both missing, the same number, or the same text
ValuesEqual(v1, v2) ==
  \/ isna(v1) /\ isna(v2)
  \/ v1.k \in {"int", "float"} /\ v2.k \in {"int", "float"} /\ float_tenths(v1) = float_tenths(v2)
  \/ v1.k = "text" /\ v2.k = "text" /\ v1.s = v2.s

\* C1: comparing a table against an identical copy of itself yields zero
\* Difference Records, also when rows share their key-column values.
C1_Idempotence ==
  (file1 = file2 /\ results # <<>>) => results[1].out.diff_summary = <<>>

\* C2: the pairing is one-to-one: a table-B row is the new side of pairs and
\* of modified records of at most one table-A row, a table-A row is paired
\* with at most one table-B row, and a table-B row accepted for a table-A row
\* in the similarity pass is not scored against any later table-A row.
C2_OneToOne ==
  \A c \in Calls :
    /\ \A p, q \in Pairs(c.o) :
         (p.new = q.new => p.old = q.old) /\ (p.old = q.old => p.new = q.new)
    /\ \A d, e \in RecordsOf(c.o, "modified") :
         d.row_index_new = e.row_index_new => d.row_index_old = e.row_index_old
    /\ \A p \in Pairs(c.o) : \A sc \in Range(c.o.locals.scores) :
         (p.pass = "similar" /\ sc.old > p.old) => sc.new # p.new

\* C3: after a call every row index of table A is in exactly one of {paired
\* with a B row, reported by a deleted record}, and every row index of table B
\* is in exactly one of {paired with an A row, reported by an added record}.
C3_Completeness ==
  \A c \in Calls :
    /\ \A idx \in RowIndices(c.A) : (idx \in PairedOld(c.o)) # (idx \in DeletedRows(c.o))
    /\ \A idx \in RowIndices(c.B) : (idx \in PairedNew(c.o)) # (idx \in AddedRows(c.o))
    /\ PairedOld(c.o) \cup DeletedRows(c.o) \subseteq RowIndices(c.A)
    /\ PairedNew(c.o) \cup AddedRows(c.o) \subseteq RowIndices(c.B)

\* C3 witness: a call has finished that left a paired row, a deleted row and
\* an added row.
C3_Witness ==
  \E c \in Calls :
    /\ PairedOld(c.o) # {}
    /\ DeletedRows(c.o) # {}
    /\ AddedRows(c.o) # {}

ModifiedCells(o) ==
  { <<d.column, d.row_index_old, d.row_index_new, d.value_old, d.value_new>> :
      d \in RecordsOf(o, "modified") }

\* C4: compare_dataframes(A, B) and compare_dataframes(B, A) give the same
\* paired rows and modified cells with old and new exchanged, and the added
\* rows of one are the deleted rows of the other.
C4_Symmetry ==
  (results # <<>> /\ swapped # <<>>) =>
    LET ab == results[1]
        ba == swapped[1]
    IN  /\ { <<p.old, p.new>> : p \in Pairs(ab) } = { <<p.new, p.old>> : p \in Pairs(ba) }
        /\ ModifiedCells(ab) = { <<m[1], m[3], m[2], m[5], m[4]>> : m \in ModifiedCells(ba) }
        /\ AddedRows(ab) = DeletedRows(ba)
        /\ DeletedRows(ab) = AddedRows(ba)

\* C5: after compare_dataframes(df1, df2) returns, the two input tables have
\* the columns and cell values they had before the call.
C5_InputsNotMutated ==
  results # <<>> => (df1 = file1 /\ df2 = file2)

\* C6: a second call on the same two table objects yields the same Difference
\* Records and the same two style lists as the first call.
C6_RerunSame ==
  Len(results) >= 2 =>
    /\ results[2].out.diff_summary = results[1].out.diff_summary
    /\ results[2].out.df1_styles = results[1].out.df1_styles
    /\ results[2].out.df2_styles = results[1].out.df2_styles

\* C7: every modified Difference Record carries a similarity score in
\* [0.0, 1.0], and the score is 1.0 for a pair of the exact-match pass.
C7_ModifiedCarriesSimilarity ==
  \A c \in Calls : \A d \in RecordsOf(c.o, "modified") :
    /\ "similarity" \in DOMAIN d
    /\ InUnit(d.similarity)
    /\ (\E p \in Pairs(c.o) :
          p.old = d.row_index_old /\ p.new = d.row_index_new /\ p.pass = "exact")
       => d.similarity = One

\* C8: in every added and deleted record, values holds exactly the common
\* columns of the row whose value is not missing.
C8_ValuesNonMissingCommon ==
  \A c \in FreshCalls :
    /\ \A d \in RecordsOf(c.o, "deleted") :
         DOMAIN d.values =
           { col \in CommonOf(c.A, c.B) : notna(c.A.rows[d.row_index + 1][col]) }
    /\ \A d \in RecordsOf(c.o, "added") :
         DOMAIN d.values =
           { col \in CommonOf(c.A, c.B) : notna(c.B.rows[d.row_index + 1][col]) }

RowsEqualOn(row1, row2, cols) == \A col \in Range(cols) : ValuesEqual(row1[col], row2[col])

\* C9 as claimed: calculate_row_similarity returns a value in [0, 1], and
\* exactly 1.0 for two rows whose common-column values are all equal.
C9_SimilarityReflexive ==
  \A c \in Calls : \A sc \in Range(c.o.locals.scores) :
    /\ InUnit(sc.similarity)
    /\ RowsEqualOn(sc.row1, sc.row2, c.o.locals.common_cols) => sc.similarity = One

\* C9 amended: calculate_row_similarity returns a value in [0, 1]; for two
\* rows whose common-column values are all equal it returns exactly 1.0 when
\* there is at least one common column, and 0 when there is none.
C9_SimilarityBounded ==
  \A c \in Calls : \A sc \in Range(c.o.locals.scores) :
    /\ InUnit(sc.similarity)
    /\ (c.o.locals.common_cols # <<>>
        /\ RowsEqualOn(sc.row1, sc.row2, c.o.locals.common_cols)) => sc.similarity = One
    /\ c.o.locals.common_cols = <<>> => sc.similarity = Zero

\* C9 witness: calculate_row_similarity has scored two rows that have equal
\* values in a non-empty set of common columns.
C9_Witness ==
  \E c \in Calls : \E sc \in Range(c.o.locals.scores) :
    /\ c.o.locals.common_cols # <<>>
    /\ RowsEqualOn(sc.row1, sc.row2, c.o.locals.common_cols)
    /\ sc.similarity = One

Scenario2A == [columns |-> <<"id", "name">>, rows |-> <<[id |-> IntV(1), name |-> Alice]>>]
Scenario2B == [columns |-> <<"id", "name">>, rows |-> <<[id |-> IntV(1), name |-> Alicia]>>]

\* C10: Scenario 2 returns exactly one Difference Record, a modified record on
\* "name" with value_old "Alice" and value_new "Alicia", for a pair of the
\* exact-match pass reported with similarity 1.0.
C10_Scenario2 ==
  (file1 = Scenario2A /\ file2 = Scenario2B /\ results # <<>>) =>
    LET ds == results[1].out.diff_summary
    IN  /\ Len(ds) = 1
        /\ ds[1].type = "modified"
        /\ ds[1].column = "name"
        /\ ds[1].value_old = Alice.s
        /\ ds[1].value_new = Alicia.s
        /\ results[1].locals.pairs = <<[old |-> 0, new |-> 0, pass |-> "exact"]>>
        /\ "similarity" \in DOMAIN ds[1]
        /\ ds[1].similarity = One

Scenario5A ==
  [columns |-> <<"a", "b", "c">>, rows |-> <<[a |-> IntV(1), b |-> IntV(2), c |-> IntV(3)]>>]
Scenario5B ==
  [columns |-> <<"a", "b", "c">>, rows |-> <<[a |-> IntV(1), b |-> IntV(2), c |-> IntV(30)]>>]

\* C11: Scenario 5 pairs the two rows in the similarity pass and returns a
\* single modified record on "c" (old 3, new 30), not a deleted and an added
\* record, whatever the order in which the three columns are taken.
C11_Scenario5 ==
  (file1 = Scenario5A /\ file2 = Scenario5B /\ results # <<>>) =>
    LET ds == results[1].out.diff_summary
    IN  /\ Len(ds) = 1
        /\ ds[1].type = "modified"
        /\ ds[1].column = "c"
        /\ ds[1].value_old = IntStr(3)
        /\ ds[1].value_new = IntStr(30)
        /\ results[1].locals.pairs = <<[old |-> 0, new |-> 0, pass |-> "similar"]>>

\* the fingerprints of the rows of a table are pairwise distinct
DistinctFingerprints(T, key_columns) ==
  \A m, n \in 1..Len(T.rows) :
    m # n => create_row_hash(T.rows[m], key_columns) # create_row_hash(T.rows[n], key_columns)

\* the ways to find the rows of S, in order, among the rows of T
Embeddings(S, T) ==
  { f \in [1..Len(S.rows) -> 1..Len(T.rows)] :
      /\ \A m, n \in 1..Len(S.rows) : m < n => f[m] < f[n]
      /\ \A n \in 1..Len(S.rows) : RowsEqualOn(S.rows[n], T.rows[f[n]], S.columns) }

\* T is S with extra rows inserted
IsInsertion(S, T) ==
  S.columns = T.columns /\ Len(S.rows) < Len(T.rows) /\ Embeddings(S, T) # {}

\* the row indices of T that are extra rows
ExtraRows(S, T) ==
  LET f == CHOOSE f \in Embeddings(S, T) : TRUE
  IN  RowIndices(T) \ { f[n] - 1 : n \in 1..Len(S.rows) }

\* the records of one type report exactly the rows of T in extra, each once
\* and with the values of its row
ReportsExactly(o, type, T, extra) ==
  /\ Len(o.out.diff_summary) = Cardinality(extra)
  /\ \A idx \in extra : \E d \in RecordsOf(o, type) :
       /\ d.row_index = idx
       /\ \A col \in Range(T.columns) :
            notna(T.rows[idx + 1][col]) =>
              col \in DOMAIN d.values /\ d.values[col] = T.rows[idx + 1][col]

\* C12: when the fingerprints inside each table are pairwise distinct and B
\* is A with extra rows inserted, the result is exactly one added record per
\* extra row, with its B index and values; when A is B with extra rows, it is
\* exactly one deleted record per extra A row.
C12_PureInsertion ==
  \A c \in FreshCalls :
    (/\ DistinctFingerprints(c.A, c.o.locals.key_columns)
     /\ DistinctFingerprints(c.B, c.o.locals.key_columns)) =>
      /\ IsInsertion(c.A, c.B) => ReportsExactly(c.o, "added", c.B, ExtraRows(c.A, c.B))
      /\ IsInsertion(c.B, c.A) => ReportsExactly(c.o, "deleted", c.A, ExtraRows(c.B, c.A))

\* C13: no modified record and no "modified" style entry is emitted for a
\* column named "no", "no." or the word for number, in either pass.
C13_OrdinalNeverModified ==
  \A c \in Calls :
    /\ \A d \in RecordsOf(c.o, "modified") : ~is_no_column(d.column)
    /\ \A st \in Range(c.o.out.df1_styles) \cup Range(c.o.out.df2_styles) :
         st.cellClass = "ag-cell-modified" => ~is_no_column(st.field)

\* C14: when the two tables share no column name, no row is paired and the
\* result is one deleted record per row of A and one added record per row of
\* B.
C14_NoCommonColumns ==
  \A c \in FreshCalls :
    CommonOf(c.A, c.B) = {} =>
      /\ Pairs(c.o) = {}
      /\ RecordsOf(c.o, "modified") = {}
      /\ DeletedRows(c.o) = RowIndices(c.A)
      /\ AddedRows(c.o) = RowIndices(c.B)
      /\ Len(c.o.out.diff_summary) = Len(c.A.rows) + Len(c.B.rows)

\* an extraction that fails at some step: wb is no workbook, the workbook
\* has no such sheet, or reading the shape containers raises
ExtractionFails(call) ==
  \/ call.wb.kind # "Workbook"
  \/ call.sheet_name \notin DOMAIN call.wb.sheets
  \/ call.wb.sheets[call.sheet_name].containers_raise

\* C15: when extracting the shapes of a sheet fails at any step,
\* extract_shape_info returns an empty shape list instead of raising, and
\* main still runs compare_dataframes for the sheet pair and records its
\* result.
C15_ShapeFailureRecovered ==
  /\ \A call \in Range(shapes_calls) :
       ExtractionFails(call) => (~call.r.raised /\ call.r.shapes_info = <<>>)
  /\ \A run \in Range(main_run) :
       ~run.error /\ Len(run.all_comparison_results) = 1

\* the fingerprints create_row_hash gives the rows of a table
content_hashes(T, key_columns) ==
  [n \in 1..Len(T.rows) |-> create_row_hash(T.rows[n], key_columns)]

\* the positions "0", "1", ... of the rows of a table
index_hashes(T) == [n \in 1..Len(T.rows) |-> IntStr(n - 1)]

\* C16: when building the fingerprints raises for a table, the call still
\* returns, that table's rows are fingerprinted by their position, the other
\* table keeps its content fingerprints, and the exact-match pass forms no
\* pair.
C16_FallbackOneTable ==
  \A f \in Range(fallback) :
    LET key_columns == f.o.locals.key_columns
    IN  /\ row_hashes(IF f.failing = "df1" THEN f.df1 ELSE f.df2)
             = index_hashes(IF f.failing = "df1" THEN file1 ELSE file2)
        /\ row_hashes(IF f.failing = "df1" THEN f.df2 ELSE f.df1)
             = content_hashes(IF f.failing = "df1" THEN file2 ELSE file1, key_columns)
        /\ \A p \in Pairs(f.o) : p.pass # "exact"

\* the calls whose fingerprints are still in df1 and df2 and are built from
\* one key column that is no ordinal column: a fingerprint is "1:" and the
\* normalised value
OneKeyCalls ==
  { c \in { [o |-> results[n], hashed |-> <<df1, df2>>] : n \in 1..Len(results) } :
      /\ Len(results) = 1
      /\ Len(c.o.locals.key_columns) = 1
      /\ ~is_no_column(c.o.locals.key_columns[1]) }

\* the key-column value and the normalised value of every row of the two
\* tables of a call of OneKeyCalls
NormalisedCells(c) ==
  LET col == c.o.locals.key_columns[1]
      cells(T) == { [val |-> T.rows[n][col], hash |-> T.rows[n][ROW_HASH].s] :
                      n \in 1..Len(T.rows) }
  IN  { [val |-> cell.val, normalised |-> SubSeq(cell.hash, 3, Len(cell.hash))] :
          cell \in { e \in cells(c.hashed[1]) \cup cells(c.hashed[2]) :
                       StartsWith(e.hash, <<"1", ":">>) } }

\* C17: the integer 5 and the float 5.0 normalise to "5", every integral
\* number to its digits without a trailing ".0", and None and NaN to the
\* empty string.
C17_Normalisation ==
  \A c \in OneKeyCalls :
    /\ Cardinality(NormalisedCells(c)) > 0
    /\ \A cell \in NormalisedCells(c) :
         /\ ValuesEqual(cell.val, IntV(5)) => cell.normalised = <<"5">>
         /\ cell.val.k = "int" => cell.normalised = IntStr(cell.val.i)
         /\ (cell.val.k = "float" /\ cell.val.i % 10 = 0)
              => cell.normalised = IntStr(cell.val.i \div 10)
         /\ isna(cell.val) => cell.normalised = <<>>

\* C17 witness: a call has normalised the integer 5, the float 5.0, None and
\* NaN.
C17_Witness ==
  \E c \in OneKeyCalls :
    \A val \in {IntV(5), FloatV(50), NoneVal, NaN} :
      \E cell \in NormalisedCells(c) : cell.val = val

\* the row indices of a table whose rows carry the fingerprint F, ascending
Carrying(T, key_columns, F) ==
  SelectSeq([n \in 1..Len(T.rows) |-> n - 1],
            LAMBDA idx : create_row_hash(T.rows[idx + 1], key_columns) = F)

\* C18: in the exact-match pass the k-th A row carrying a fingerprint F is
\* paired with the k-th B row carrying F, for as long as B has such a row
\* left: min(count of F in A, count of F in B) exact pairs for F.
C18_ExactDuplicates ==
  \A c \in FreshCalls :
    LET key_columns == c.o.locals.key_columns
    IN  \A F \in Range(content_hashes(c.A, key_columns)) :
          LET a == Carrying(c.A, key_columns, F)
              b == Carrying(c.B, key_columns, F)
          IN  { <<p.old, p.new>> : p \in { q \in Pairs(c.o) :
                                             q.pass = "exact" /\ q.old \in Range(a) } }
                = { <<a[k], b[k]>> : k \in 1..Min(Len(a), Len(b)) }

\* the rows of a table of a call that the exact-match pass left over
LeftOverOld(c) == RowIndices(c.A) \ { p.old : p \in { q \in Pairs(c.o) : q.pass = "exact" } }
LeftOverNew(c) == RowIndices(c.B) \ { p.new : p \in { q \in Pairs(c.o) : q.pass = "exact" } }

\* the scores computed for the A row idx1
ScoresFor(c, idx1) == { sc \in Range(c.o.locals.scores) : sc.old = idx1 }

\* the candidate of maximum score for the A row idx1, the lowest B index
\* among equal scores
IsBest(c, idx1, sc) ==
  /\ sc \in ScoresFor(c, idx1)
  /\ \A other \in ScoresFor(c, idx1) :
       /\ ~FracGT(other.similarity, sc.similarity)
       /\ other.similarity = sc.similarity => sc.new <= other.new

\* C19: every A row left over from the exact pass is scored against the B
\* rows left over from the exact pass and is paired with the candidate of
\* maximum score when that score is strictly greater than 0.8, the lowest B
\* index among equal scores; otherwise it is not paired and is reported
\* deleted.  The rows are taken in their original order.
C19_GreedySelection ==
  \A c \in Calls :
    /\ \A idx1 \in LeftOverOld(c) :
         /\ { sc.new : sc \in ScoresFor(c, idx1) } = LeftOverNew(c)
         /\ \A sc \in ScoresFor(c, idx1) :
              IsBest(c, idx1, sc) =>
                IF FracGT(sc.similarity, similarity_threshold)
                THEN /\ [old |-> idx1, new |-> sc.new, pass |-> "similar"] \in Pairs(c.o)
                     /\ \A p \in Pairs(c.o) : p.old = idx1 => p.new = sc.new
                     /\ idx1 \notin DeletedRows(c.o)
                ELSE /\ idx1 \notin PairedOld(c.o)
                     /\ idx1 \in DeletedRows(c.o)
    /\ \A m, n \in 1..Len(c.o.locals.pairs) :
         (m < n /\ c.o.locals.pairs[m].pass = "similar")
           => /\ c.o.locals.pairs[n].pass = "similar"
              /\ c.o.locals.pairs[m].old < c.o.locals.pairs[n].old

\* C19 witness: a call has left a row unpaired and deleted whose best score
\* was exactly the threshold, and has paired another row by similarity.
C19_Witness ==
  /\ \E c \in Calls : \E idx1 \in LeftOverOld(c) : \E sc \in ScoresFor(c, idx1) :
       /\ IsBest(c, idx1, sc)
       /\ sc.similarity = similarity_threshold
       /\ idx1 \in DeletedRows(c.o)
  /\ \E c \in Calls : \E p \in Pairs(c.o) : p.pass = "similar"

\* C20: for a paired row a modified record is emitted for a common column
\* that is no ordinal column if and only if the normalised forms of the two
\* cell values differ (so 5 and 5.0, or two texts that differ in case or in
\* surrounding whitespace, yield none); value_old and value_new of a record
\* are the two raw cell values.
C20_CellsUseNormalizer ==
  \A c \in FreshCalls : \A p \in Pairs(c.o) : \A col \in CommonOf(c.A, c.B) :
    ~is_no_column(col) =>
      LET val1 == c.A.rows[p.old + 1][col]
          val2 == c.B.rows[p.new + 1][col]
          recs == { d \in RecordsOf(c.o, "modified") :
                      d.column = col /\ d.row_index_old = p.old /\ d.row_index_new = p.new }
      IN  /\ (recs # {}) <=> (normalized_value(val1) # normalized_value(val2))
          /\ \A d \in recs : TextV(d.value_old) = val1 /\ TextV(d.value_new) = val2

\* the pass that paired the rows of a modified record
PassOf(o, d) ==
  The({ p.pass : p \in { q \in Pairs(o) : q.old = d.row_index_old
                                          /\ q.new = d.row_index_new } })

\* the place of a record in the documented order of emission
Rank(o, d) ==
  IF d.type = "modified" THEN (IF PassOf(o, d) = "exact" THEN 1 ELSE 2)
  ELSE IF d.type = "deleted" THEN 3 ELSE 4

\* C21: the Difference Records are emitted in this order: the modified
\* records of the exact-match pass, the modified records of the similarity
\* pass, all deleted records by ascending table-A row index, all added
\* records by ascending table-B row index; no deleted record precedes a
\* modified record.
C21_EmissionOrder ==
  \A c \in Calls :
    LET ds == c.o.out.diff_summary
    IN  \A m, n \in 1..Len(ds) :
          m < n => /\ Rank(c.o, ds[m]) <= Rank(c.o, ds[n])
                   /\ (ds[m].type = ds[n].type /\ ds[m].type # "modified")
                        => ds[m].row_index < ds[n].row_index

\* the common columns of two tables in the column order of the first table
CommonInColumnOrder(A, B) ==
  SelectSeq(SelectSeq(A.columns, LAMBDA col : col # ROW_HASH),
            LAMBDA col : col \in Range(B.columns))

\* the key columns as a function of the two column lists alone
KeyColumnsInColumnOrder(A, B) ==
  LET ordered == CommonInColumnOrder(A, B)
      named == SelectSeq(ordered, is_key_like)
  IN  IF named # <<>> THEN named
      ELSE SubSeq(ordered, 1, Min(3, Len(ordered)))

\* C22: the key columns are a function of the two column lists: the common
\* columns whose name contains a key pattern, or else the first
\* min(3, number of common columns) common columns in the tables' column
\* order; the same two tables get the same key columns in the same order.
C22_KeyColumnsDeterministic ==
  \A c \in FreshCalls :
    c.o.locals.key_columns = KeyColumnsInColumnOrder(c.A, c.B)

\* the documented weight of a column, in tenths
DocumentedWeight(col, key_columns) ==
  IF is_no_column(col) THEN 1
  ELSE IF \E n \in 1..Min(2, Len(key_columns)) : key_columns[n] = col THEN 30
  ELSE IF \E n \in 1..Len(key_columns) : key_columns[n] = col THEN 20
  ELSE 10

\* a + b for two fractions
FracPlus(a, b) == Frac(a[1] * b[2] + b[1] * a[2], a[2] * b[2])

\* the sum over the columns cols[n..] of weight * column similarity, and the
\* sum of the weights, both in tenths
RECURSIVE WeightedSum(_, _, _, _, _)
WeightedSum(row1, row2, cols, key_columns, n) ==
  IF n > Len(cols) THEN [matches |-> Zero, weight |-> 0]
  ELSE The({ [matches |-> FracPlus(rest.matches, Frac(w * s[1], s[2])),
              weight |-> rest.weight + w] :
               rest \in {WeightedSum(row1, row2, cols, key_columns, n + 1)},
               w \in {DocumentedWeight(cols[n], key_columns)},
               s \in {column_similarity(row1[cols[n]], row2[cols[n]])} })

\* the weighted mean of the column similarities, 0 without a column
WeightedMean(row1, row2, cols, key_columns) ==
  The({ IF sum.weight = 0 THEN Zero
        ELSE Frac(sum.matches[1], sum.matches[2] * sum.weight) :
        sum \in {WeightedSum(row1, row2, cols, key_columns, 1)} })

IsNumber(val) == val.k \in {"int", "float"}

\* max(0, 1 - |a - b| / max(|a|, |b|)) for two numbers, 1 for equal numbers
DocumentedNumberSimilarity(val1, val2) ==
  LET a == float_tenths(val1)
      b == float_tenths(val2)
  IN  IF a = b THEN One
      ELSE IF Abs(a - b) >= Max(Abs(a), Abs(b)) THEN Zero
      ELSE Frac(Max(Abs(a), Abs(b)) - Abs(a - b), Max(Abs(a), Abs(b)))

\* C23: every score computed by a call is the weighted mean of the column
\* similarities over the common columns, with weight 0.1 for an ordinal
\* column, otherwise 3.0 for one of the first two key columns, 2.0 for
\* another key column and 1.0 for a column that is no key column, and is 0
\* without a common column; for a column, two missing values give 1.0, one
\* missing value gives 0.0, and two numbers give
\* max(0, 1 - |a-b| / max(|a|,|b|)), equal numbers 1.0.
C23_RowSimilarity ==
  \A c \in Calls : \A sc \in Range(c.o.locals.scores) :
    LET cols == c.o.locals.common_cols
    IN  /\ sc.similarity = WeightedMean(sc.row1, sc.row2, cols, c.o.locals.key_columns)
        /\ cols = <<>> => sc.similarity = Zero
        /\ \A col \in Range(cols) :
             LET val1 == sc.row1[col]
                 val2 == sc.row2[col]
             IN  /\ (isna(val1) /\ isna(val2)) => column_similarity(val1, val2) = One
                 /\ (isna(val1) /\ notna(val2)) => column_similarity(val1, val2) = Zero
                 /\ (notna(val1) /\ isna(val2)) => column_similarity(val1, val2) = Zero
                 /\ (IsNumber(val1) /\ IsNumber(val2))
                      => column_similarity(val1, val2)
                           = DocumentedNumberSimilarity(val1, val2)

\* C23 witness: a call has scored two rows that differ in the number of an
\* ordinal key column and agree in a column that is no key column, to a
\* score strictly between 0 and 1.
C23_Witness ==
  \E c \in Calls : \E sc \in Range(c.o.locals.scores) :
    /\ \E col \in Range(c.o.locals.key_columns) :
         /\ is_no_column(col)
         /\ IsNumber(sc.row1[col]) /\ IsNumber(sc.row2[col])
         /\ sc.row1[col] # sc.row2[col]
    /\ \E col \in Range(c.o.locals.common_cols) :
         /\ col \notin Range(c.o.locals.key_columns)
         /\ sc.row1[col] = sc.row2[col]
    /\ FracGT(sc.similarity, Zero) /\ FracGT(One, sc.similarity)

\* the positions of the records of shape_differences about the table-B shape
\* idx2, and about the table-A shape idx1
RecordsOfNew(ds, idx2) ==
  { n \in 1..Len(ds) : ds[n].type \in {"added", "modified"} /\ ds[n].shape_index = idx2 }
RecordsOfOld(ds, idx1) ==
  { n \in 1..Len(ds) : ds[n].type = "deleted" /\ ds[n].shape_index = idx1 }

\* the table-A shapes that correspond to a shape: same x, y and type
Corresponding(shapes1, s) ==
  { idx1 \in 0..(Len(shapes1) - 1) :
      shapes1[idx1 + 1].x = s.x /\ shapes1[idx1 + 1].y = s.y /\ shapes1[idx1 + 1].type = s.type }

Least(S) == CHOOSE n \in S : \A m \in S : n <= m

\* C24: compare_shapes reports exactly one added record for a table-B shape
\* without a corresponding table-A shape, exactly one deleted record for a
\* table-A shape without a corresponding table-B shape, and for a table-B
\* shape with a corresponding table-A shape (the first one in table-A order)
\* one modified record exactly when width, height or text differ and no
\* record otherwise; the records of the table-B shapes come first in table-B
\* order, then the deleted records in table-A order.
C24_ShapeClassification ==
  shape_run.compared =>
    LET shapes1 == shape_run.shapes1
        shapes2 == shape_run.shapes2
        ds == shape_run.shape_differences
    IN  /\ \A idx2 \in 0..(Len(shapes2) - 1) :
             LET new == shapes2[idx2 + 1]
                 olds == Corresponding(shapes1, new)
                 recs == RecordsOfNew(ds, idx2)
             IN  IF olds = {}
                 THEN /\ Cardinality(recs) = 1
                      /\ \A n \in recs : ds[n].type = "added" /\ ds[n].shape = new
                 ELSE LET old == shapes1[Least(olds) + 1]
                      IN  IF old.width # new.width \/ old.height # new.height
                             \/ old.text # new.text
                          THEN /\ Cardinality(recs) = 1
                               /\ \A n \in recs : /\ ds[n].type = "modified"
                                                  /\ ds[n].old_shape = old
                                                  /\ ds[n].new_shape = new
                          ELSE recs = {}
        /\ \A idx1 \in 0..(Len(shapes1) - 1) :
             IF \E n \in 1..Len(shapes2) : idx1 \in Corresponding(shapes1, shapes2[n])
             THEN RecordsOfOld(ds, idx1) = {}
             ELSE /\ Cardinality(RecordsOfOld(ds, idx1)) = 1
                  /\ \A n \in RecordsOfOld(ds, idx1) : ds[n].shape = shapes1[idx1 + 1]
        /\ \A n \in 1..Len(ds) : ds[n].type \in {"added", "modified", "deleted"}
        /\ \A m, n \in 1..Len(ds) :
             m < n => /\ ds[m].type = "deleted" => ds[n].type = "deleted"
                      /\ (ds[m].type = "deleted") = (ds[n].type = "deleted")
                           => ds[m].shape_index < ds[n].shape_index

\* C24 witness: one comparison has reported a modified, an added and a
\* deleted shape.
C24_Witness ==
  /\ shape_run.compared
  /\ \A type \in {"modified", "added", "deleted"} :
       \E n \in 1..Len(shape_run.shape_differences) :
         shape_run.shape_differences[n].type = type

\* C26: comparing a shape list with an identical copy of itself yields no
\* shape difference, also when several shapes of the list share x, y and
\* type and differ in width, height or text.
C26_ShapesIdempotence ==
  (shape_run.compared /\ shape_run.shapes1 = shape_run.shapes2)
    => shape_run.shape_differences = <<>>

\* C25: whenever all_comparison_results is not empty after the loop over
\* the sheet pairs, main goes through the summary step and calls
\* export_comparison; no step between the end of the loop and that call
\* aborts main.
C25_ExportReached ==
  \A run \in Range(summary_run) :
    run.all_comparison_results # <<>> => (run.raised = "" /\ run.export_called)

\* the positions of a style list that mark the cell (col, idx) with a class
Entries(styles, col, idx, class) ==
  { n \in 1..Len(styles) : styles[n] = style(col, idx, class) }

\* a style list marks every cell at most once
OneEntryPerCell(styles) ==
  \A m, n \in 1..Len(styles) :
    (styles[m].field = styles[n].field /\ styles[m].rowIndex = styles[n].rowIndex) => m = n

\* a style list marks a row reported deleted or added on exactly its
\* non-missing common-column cells
RowMarked(styles, d, class) ==
  \A col \in DOMAIN d.values :
    Cardinality(Entries(styles, col, d.row_index, class))
      = IF notna(d.values[col]) THEN 1 ELSE 0

\* C27: after every comparison the style lists agree with the Difference
\* Records: the table-A list holds only modified and deleted tags, the
\* table-B list only modified and added tags; each modified record has
\* exactly one modified entry in each list, on its column and its old or new
\* row; a row reported deleted (added) has a deleted (added) entry on exactly
\* its non-missing common-column cells; no cell of either table carries two
\* entries.
C27_StylesAgree ==
  \A c \in Calls :
    LET out == c.o.out
    IN  /\ \A s \in Range(out.df1_styles) :
             s.cellClass \in {"ag-cell-modified", "ag-cell-deleted"}
        /\ \A s \in Range(out.df2_styles) :
             s.cellClass \in {"ag-cell-modified", "ag-cell-added"}
        /\ \A d \in RecordsOf(c.o, "modified") :
             /\ Cardinality(Entries(out.df1_styles, d.column, d.row_index_old,
                                    "ag-cell-modified")) = 1
             /\ Cardinality(Entries(out.df2_styles, d.column, d.row_index_new,
                                    "ag-cell-modified")) = 1
        /\ \A d \in RecordsOf(c.o, "deleted") :
             RowMarked(out.df1_styles, d, "ag-cell-deleted")
        /\ \A d \in RecordsOf(c.o, "added") :
             RowMarked(out.df2_styles, d, "ag-cell-added")
        /\ OneEntryPerCell(out.df1_styles)
        /\ OneEntryPerCell(out.df2_styles)

====
